---------------------------- MODULE Spec2Model ----------------------------
(***************************************************************************)
(* Model of the grblHAL odometer plugin (odometer.c): per-axis step        *)
(* counters, motor and spindle run time, and the two records kept in       *)
(* non-volatile storage (current and previous).                            *)
(*                                                                         *)
(* Every handler of odometer.c is one action.  The host (stepper driver,   *)
(* state machine, spindle driver, command dispatcher, foreground task      *)
(* executor, millisecond tick) is the environment: it calls a handler only *)
(* through the entry point the plugin installed.  Other subsystems may     *)
(* replace or wrap the pulse entry point (OtherSubsystem).  onStateChanged *)
(* is also given statement by statement (onStateChanged_enter .. _write),  *)
(* for the runs in which the pulse hook preempts it.                       *)
(*                                                                         *)
(* Distances are single-precision floats in the code.  The model keeps a   *)
(* distance as an integer number of quanta (1/QuantaPerMm mm) and rounds   *)
(* every sum to FLT_MANT_DIG significant bits, ties to even, as the FPU    *)
(* does; axis scales are restricted to divisors of QuantaPerMm so that     *)
(* the quotient steps / steps_per_mm is itself exact.                      *)
(*                                                                         *)
(* hal.get_elapsed_ticks() is a uint32 millisecond counter; the model's    *)
(* horizon (MaxTick) is far below 2^32, so now - ms never wraps here.      *)
(***************************************************************************)
EXTENDS Integers, Sequences, FiniteSets, TLC

\* ------------------------------------------------------------------ bounds
MaxTick == 2
MaxPulses == 2
MaxQueue == 2
MaxCalls == 4

\* --------------------------------------------------------------- constants
N_AXIS == 3
FLT_MANT_DIG == 24
NVS_CRC_BYTES == 1
QuantaPerMm == 2
\* the checksum is NVS_CRC_BYTES bytes wide
CrcMod == 2 ^ (8 * NVS_CRC_BYTES)

Axes == 0 .. (N_AXIS - 1)

VARIABLES
    pc,                 \* "boot" before odometer_init, "run" after it
    now,                \* hal.get_elapsed_ticks()
    nvs_type,           \* nvs.type of the physical storage
    nvs_free,           \* NVS_SIZE - GRBL_NVS_SIZE - hal.nvs.driver_area.size
    nvs_cur,            \* storage at odometers_address: [data, crc]
    nvs_prv,            \* storage at odometers_address_prv: [data, crc]
    steps_per_mm,       \* settings.axis[idx].steps_per_mm
    steps,              \* static uint32_t steps[N_AXIS]
    odometer_changed,   \* static bool odometer_changed
    odometers,          \* static odometer_data_t odometers
    odometers_prv,      \* static odometer_data_t odometers_prv
    ms_state,           \* static uint32_t ms of onStateChanged
    ms_spindle,         \* static uint32_t ms of onSpindleSetState
    hooks,              \* the host entry points and what is installed in each
    spindle,            \* the selected spindle: [id, set_state]
    spindle_set_state_, \* saved underlying set-state function
    saved,              \* the handlers saved when the plugin's were installed
    other,              \* the pulse handler another subsystem saved when it wrapped
    sc,                 \* where onStateChanged stands when it is run statement by
                        \* statement: [at, idx, state]
    tasks,              \* foreground task queue (odometers_write entries)
    startup,            \* tasks registered with task_run_on_startup
    call,               \* the last handler run: [op, arg, ctx, io, out, ret, fwd]
    calls,              \* number of host events so far (bounded in Spec only)
    hist                \* history kept for the properties (not program state)

vars == << pc, now, sc, nvs_type, nvs_free, nvs_cur, nvs_prv, steps_per_mm, steps,
           odometer_changed, odometers, odometers_prv, ms_state, ms_spindle,
           hooks, saved, other, spindle, spindle_set_state_, tasks, startup, call,
           calls, hist >>

\* ------------------------------------------------------------------ record
ZeroSteps == [a \in Axes |-> 0]

\* memset(&odometers, 0, sizeof(odometer_data_t))
ZeroRecord == [motors |-> 0, spindle |-> 0, distance |-> [a \in Axes |-> 0]]

\* sizeof(odometer_data_t): two uint64_t and N_AXIS floats, padded to 8 bytes
RecordSize == ((16 + 4 * N_AXIS + 7) \div 8) * 8

\* (sizeof(odometer_data_t) + NVS_CRC_BYTES) * 2
NvsNeeded == (RecordSize + NVS_CRC_BYTES) * 2

\* --------------------------------------------------------- float arithmetic
RECURSIVE Ulp(_)
\* spacing of the floats around x (in quanta): 1 below 2^FLT_MANT_DIG quanta
Ulp(x) == IF x < 2 ^ FLT_MANT_DIG THEN 1 ELSE 2 * Ulp(x \div 2)

\* x rounded to the nearest float, ties to even
RoundToFloat(x) ==
    LET u == Ulp(x)
        r == x % u
        lo == x - r
    IN  IF 2 * r < u THEN lo
        ELSE IF 2 * r > u THEN lo + u
        ELSE IF (lo \div u) % 2 = 0 THEN lo ELSE lo + u

\* (float)steps[idx] / settings.axis[idx].steps_per_mm, in quanta
StepsToDistance(n, scale) == n * (QuantaPerMm \div scale)

\* odometers.distance[idx] += ...
AddDistance(d, n, scale) == RoundToFloat(d + StepsToDistance(n, scale))

\* ----------------------------------------------------------------- storage
RECURSIVE ByteSum(_, _)
ByteSum(d, n) == IF n = 0 THEN 0 ELSE (d[n - 1] % CrcMod) * (2 * n + 3) + ByteSum(d, n - 1)

\* checksum the backend stores after the data
Crc(rec) ==
    (rec.motors + rec.spindle * 3 + ByteSum(rec.distance, N_AXIS) + 1) % CrcMod

\* what memcpy_to_nvs(..., with_checksum = true) leaves in a slot
Stored(rec) == [data |-> rec, crc |-> Crc(rec)]

\* memcpy_from_nvs(..., with_checksum = true): the transfer result
LoadOk(slot) == slot.crc = Crc(slot.data)

Io(kind, slot, ctx) == [kind |-> kind, slot |-> slot, ctx |-> ctx]

\* ------------------------------------------------------------------- inputs
\* a record after long use: axis 0 has travelled 2^FLT_MANT_DIG mm
WornRecord ==
    [motors |-> 3660005, spindle |-> 7200000,
     distance |-> [a \in Axes |-> IF a = 0 THEN QuantaPerMm * 2 ^ FLT_MANT_DIG ELSE a]]

\* a slot whose checksum does not match its data (never written, or corrupt)
Corrupt(rec) == [data |-> rec, crc |-> (Crc(rec) + 1) % CrcMod]

\* settings.axis[idx].steps_per_mm: divisors of QuantaPerMm
Scale == [a \in Axes |-> IF a = 1 THEN 2 ELSE 1]

\* sub: the subscriber the host has for state changes and spindle selection
Boot(type, free, cur, prv, sub) ==
    [type |-> type, free |-> free, cur |-> cur, prv |-> prv, sub |-> sub]

\* the machines the plugin is started on
BootConfigs ==
    { Boot("NVS_EEPROM", NvsNeeded, Stored(WornRecord), Corrupt(ZeroRecord), "NULL"),
      Boot("NVS_EEPROM", NvsNeeded + 1, Corrupt(WornRecord), Stored(WornRecord), "host"),
      Boot("NVS_FRAM", NvsNeeded, Stored(ZeroRecord), Corrupt(ZeroRecord), "host"),
      Boot("NVS_FRAM", NvsNeeded - 1, Stored(WornRecord), Stored(WornRecord), "NULL"),
      Boot("NVS_Flash", NvsNeeded, Stored(WornRecord), Stored(WornRecord), "host"),
      Boot("NVS_None", NvsNeeded - 1, Corrupt(ZeroRecord), Corrupt(ZeroRecord), "NULL") }

\* sys_state_t values the host notifies
States == {"STATE_IDLE", "STATE_HOLD", "STATE_CYCLE", "STATE_JOG", "STATE_HOMING",
           "STATE_SAFETY_DOOR"}

\* stepper->step_out of the pulses the host emits
StepOuts == {{}, {0}, {1}, {0, 2}}

NoArgs == <<"NULL">>

\* the argument strings the dispatcher passes ("$ODOMETERS=..."), NULL without "="
Args == {NoArgs, <<"P", "R", "E", "V">>, <<"r", "s", "t">>, <<"F", "O", "O">>, <<>>}

\* fwd: the handlers the call forwarded to, in order
Call(op, arg, ctx, io, out, ret) ==
    [op |-> op, arg |-> arg, ctx |-> ctx, io |-> io, out |-> out, ret |-> ret,
     fwd |-> <<>>]

\* one call of handler to, made first or last in the wrapper
Forward(to, at) == <<[to |-> to, at |-> at]>>

\* if(to) to(...): a call of the saved handler when there is one
ForwardIfSet(to, at) == IF to = "NULL" THEN <<>> ELSE Forward(to, at)

Forwarding(c, fwd) == [c EXCEPT !.fwd = fwd]

\* onStateChanged is not running
ScIdle == [at |-> "idle", idx |-> 0, state |-> "STATE_IDLE"]

\* --------------------------------------------------------------------- Init
Init ==
    /\ pc = "boot"
    /\ now = 0
    /\ \E b \in BootConfigs :
          /\ nvs_type = b.type
          /\ nvs_free = b.free
          /\ nvs_cur = b.cur
          /\ nvs_prv = b.prv
          /\ hooks = [pulse_start |-> "driver", on_state_change |-> b.sub,
                      settings_changed |-> "host", on_spindle_selected |-> b.sub,
                      on_report_options |-> "host", commands |-> FALSE,
                      odometers_cap |-> FALSE]
    /\ steps_per_mm = Scale
    /\ steps = ZeroSteps
    /\ odometer_changed = FALSE
    /\ odometers = ZeroRecord
    /\ odometers_prv = ZeroRecord
    /\ ms_state = 0
    /\ ms_spindle = 0
    /\ saved = [stepper_pulse_start |-> "NULL", on_state_change |-> "NULL",
                settings_changed |-> "NULL", on_spindle_selected |-> "NULL",
                on_report_options |-> "NULL"]
    /\ other = "NULL"
    /\ sc = ScIdle
    /\ spindle = [id |-> 0, set_state |-> "driver"]
    /\ spindle_set_state_ = "NULL"
    /\ tasks = <<>>
    /\ startup = <<>>
    /\ call = Call("none", <<>>, "fg", <<>>, <<>>, "none")
    /\ calls = 0
    /\ hist = [pulses |-> 0, in_motion |-> FALSE, motion_start |-> 0,
               motion_ticks |-> 0, motors_added |-> 0, spindle_is_on |-> FALSE,
               spindle_on_at |-> 0, energized_at |-> 0, energized |-> 0,
               spindle_added |-> 0, on_at_boot_tick |-> FALSE,
               active_seen |-> FALSE, last_active |-> 0,
               counted |-> ZeroSteps, folded |-> ZeroSteps, carried |-> ZeroSteps,
               pulsed |-> ZeroSteps, backed_up |-> FALSE, backup |-> ZeroRecord]

\* ------------------------------------------------------- odometer_data_reset
\* mutant: the record is cleared before it is copied to the previous record
DataReset_ZeroFirst(backup, ctx) ==
    [odometers |-> ZeroRecord,
     odometers_prv |-> IF backup THEN ZeroRecord ELSE odometers_prv,
     nvs_prv |-> IF backup THEN Stored(ZeroRecord) ELSE nvs_prv,
     nvs_cur |-> Stored(ZeroRecord),
     io |-> (IF backup THEN <<Io("write", "prv", ctx)>> ELSE <<>>)
               \o <<Io("write", "cur", ctx)>>]

\* mutant: the cleared record is not written to the current slot
DataReset_NoPersist(backup, ctx) ==
    [odometers |-> ZeroRecord,
     odometers_prv |-> IF backup THEN odometers ELSE odometers_prv,
     nvs_prv |-> IF backup THEN Stored(odometers) ELSE nvs_prv,
     nvs_cur |-> nvs_cur,
     io |-> IF backup THEN <<Io("write", "prv", ctx)>> ELSE <<>>]

\* the effect of odometer_data_reset(backup) on records and slots, with its writes
DataReset(backup, ctx) ==
    [odometers |-> ZeroRecord,
     odometers_prv |-> IF backup THEN odometers ELSE odometers_prv,
     nvs_prv |-> IF backup THEN Stored(odometers) ELSE nvs_prv,
     nvs_cur |-> Stored(ZeroRecord),
     io |-> (IF backup THEN <<Io("write", "prv", ctx)>> ELSE <<>>)
               \o <<Io("write", "cur", ctx)>>]

\* ------------------------------------------------------------- odometer_init
\* mutant: any backend but none is accepted
StorageSuitable_AnyBackend(type) == type # "NVS_None"

StorageSuitable(type) == type = "NVS_EEPROM" \/ type = "NVS_FRAM"

EnoughStorage(free) == ~(free < NvsNeeded)

\* mutant: the recovery reset backs up
InitResetBackup_True == TRUE

\* the argument of the recovery reset
InitResetBackup == FALSE

InstalledHooks ==
    [pulse_start |-> "stepperPulseStart", on_state_change |-> "onStateChanged",
     settings_changed |-> "onSettingsChanged",
     on_spindle_selected |-> "onSpindleSelected",
     on_report_options |-> "onReportOptions", commands |-> TRUE,
     odometers_cap |-> TRUE]

SavedHooks(h) ==
    [stepper_pulse_start |-> h.pulse_start, on_state_change |-> h.on_state_change,
     settings_changed |-> h.settings_changed,
     on_spindle_selected |-> h.on_spindle_selected,
     on_report_options |-> h.on_report_options]

odometer_init ==
    /\ pc = "boot"
    /\ pc' = "run"
    /\ IF ~StorageSuitable(nvs_type)
       THEN /\ startup' = Append(startup, "EEPROM or FRAM is required for odometers!")
            /\ call' = Call("odometer_init", <<>>, "fg", <<>>, <<>>, "disabled")
            /\ UNCHANGED << odometers, odometers_prv, nvs_cur, nvs_prv, hooks, saved >>
       ELSE IF ~EnoughStorage(nvs_free)
       THEN /\ startup' = Append(startup, "Not enough NVS storage for odometers!")
            /\ call' = Call("odometer_init", <<>>, "fg", <<>>, <<>>, "disabled")
            /\ UNCHANGED << odometers, odometers_prv, nvs_cur, nvs_prv, hooks, saved >>
       ELSE /\ IF LoadOk(nvs_cur)
               THEN /\ odometers' = nvs_cur.data
                    /\ call' = Call("odometer_init", <<>>, "fg",
                                    <<Io("read", "cur", "fg")>>, <<>>, "loaded")
                    /\ UNCHANGED << odometers_prv, nvs_cur, nvs_prv >>
               ELSE LET r == DataReset(InitResetBackup, "fg")
                    IN  /\ odometers' = r.odometers
                        /\ odometers_prv' = r.odometers_prv
                        /\ nvs_cur' = r.nvs_cur
                        /\ nvs_prv' = r.nvs_prv
                        /\ call' = Call("odometer_init", <<>>, "fg",
                                        <<Io("read", "cur", "fg")>> \o r.io, <<>>,
                                        "reset")
            /\ hooks' = InstalledHooks
            /\ saved' = SavedHooks(hooks)
            /\ UNCHANGED startup
    /\ UNCHANGED << now, sc, nvs_type, nvs_free, steps_per_mm, steps, odometer_changed,
                    ms_state, ms_spindle, other, spindle, spindle_set_state_, tasks,
                    hist >>

\* ------------------------------------------------------------------ the tick
Tick ==
    /\ pc # "hung"
    /\ now < MaxTick
    /\ now' = now + 1
    /\ call' = Call("tick", <<>>, "isr", <<>>, <<>>, "none")
    /\ UNCHANGED << pc, sc, nvs_type, nvs_free, nvs_cur, nvs_prv, steps_per_mm, steps,
                    odometer_changed, odometers, odometers_prv, ms_state, ms_spindle,
                    hooks, saved, other, spindle, spindle_set_state_, tasks, startup, hist >>

\* ---------------------------------------------------------- stepperPulseStart
\* the handlers that can be installed as hal.stepper.pulse_start
PulseHandlers == {"driver", "stepperPulseStart", "other"}

\* the handler that handler h calls: the plugin's hook and the other subsystem's
\* wrapper call the handler they saved, the driver's emitter calls none
NextPulseHandler(h) ==
    IF h = "stepperPulseStart" THEN saved.stepper_pulse_start
    ELSE IF h = "other" THEN other
    ELSE "NULL"

RECURSIVE PulsePath(_, _)
\* the handlers run by a call of h, cut off after n of them
PulsePath(h, n) ==
    IF n = 0 \/ h = "NULL" THEN <<>> ELSE <<h>> \o PulsePath(NextPulseHandler(h), n - 1)

\* what the host's call of hal.stepper.pulse_start runs
PulseCalls == PulsePath(hooks.pulse_start, Cardinality(PulseHandlers) + 1)

\* the call ends in the driver's emitter (a longer path repeats a handler for ever)
PulseReturns ==
    /\ Len(PulseCalls) \in 1 .. Cardinality(PulseHandlers)
    /\ PulseCalls[Len(PulseCalls)] = "driver"

\* stepper_pulse_start(stepper), the last statement of the hook
PulseForward == Forward(saved.stepper_pulse_start, "last")

\* the hook runs when the host's call reaches it; a call that never returns
\* exhausts the stack and stops the controller
stepperPulseStart(bits) ==
    /\ pc = "run"
    /\ \E i \in 1 .. Len(PulseCalls) : PulseCalls[i] = "stepperPulseStart"
    /\ hist.pulses < MaxPulses
    /\ odometer_changed' = TRUE
    /\ steps' = [a \in Axes |-> IF a \in bits THEN steps[a] + 1 ELSE steps[a]]
    /\ pc' = IF PulseReturns THEN "run" ELSE "hung"
    /\ call' = Forwarding(Call("stepperPulseStart", bits, "isr", <<>>, <<>>,
                                IF PulseReturns THEN "none" ELSE "overflow"),
                           PulseForward)
    /\ hist' = [hist EXCEPT !.pulses = @ + 1,
                            !.pulsed = [a \in Axes |-> IF a \in bits THEN @[a] + 1
                                                                      ELSE @[a]],
                            !.counted = [a \in Axes |-> IF a \in bits THEN @[a] + 1
                                                                       ELSE @[a]]]
    /\ UNCHANGED << now, sc, nvs_type, nvs_free, nvs_cur, nvs_prv, steps_per_mm,
                    odometers, odometers_prv, ms_state, ms_spindle, hooks, saved, other,
                    spindle, spindle_set_state_, tasks, startup >>

\* ------------------------------------------------------------- onStateChanged
\* state & (STATE_CYCLE|STATE_JOG|STATE_HOMING|STATE_SAFETY_DOOR)
IsActive(state) ==
    state \in {"STATE_CYCLE", "STATE_JOG", "STATE_HOMING", "STATE_SAFETY_DOOR"}

\* mutant: the epoch is set only when none is set
ActiveEpoch_OnlyIfUnset(t, ms) == IF ms = 0 THEN t ELSE ms

\* ms = hal.get_elapsed_ticks() in the active branch
ActiveEpoch(t, ms) == t

\* hal.get_elapsed_ticks() - ms
Elapsed(t, ms) == t - ms

\* mutant: the loop ends before axis 0 (while(--idx))
FoldedDistance_SkipX(dist, st, scale) ==
    [a \in Axes |-> IF a # 0 /\ st[a] # 0 THEN AddDistance(dist[a], st[a], scale[a])
                                         ELSE dist[a]]

\* the do ... while loop over the axes
FoldedDistance(dist, st, scale) ==
    [a \in Axes |-> IF st[a] # 0 THEN AddDistance(dist[a], st[a], scale[a]) ELSE dist[a]]

\* mutant: motors = elapsed instead of motors += elapsed
FoldedRecord_Assign(rec, st, scale, t, ms) ==
    [rec EXCEPT !.motors = Elapsed(t, ms),
                !.distance = [a \in Axes |-> IF st[a] # 0
                                              THEN AddDistance(@[a], st[a], scale[a])
                                              ELSE @[a]]]

\* mutant: the loop leaves the counter of axis 0 as it is
ClearedSteps_NotX(st) == [a \in Axes |-> IF a = 0 THEN st[a] ELSE 0]

\* steps[idx] = 0 for every counter that was not 0
ClearedSteps(st) == [a \in Axes |-> 0]

\* the record after the inactive-and-changed branch
FoldedRecord(rec, st, scale, t, ms) ==
    [rec EXCEPT !.motors = @ + Elapsed(t, ms),
                !.distance = FoldedDistance(@, st, scale)]

\* mutant: an inactive notification with a clean flag returns before forwarding
StateChangeForward_NotWhenClean(active, changed) ==
    IF active \/ changed THEN ForwardIfSet(saved.on_state_change, "last") ELSE <<>>

\* if(on_state_change) on_state_change(state), after the branches
StateChangeForward(active, changed) == ForwardIfSet(saved.on_state_change, "last")

onStateChanged(state) ==
    /\ pc = "run"
    /\ hooks.on_state_change = "onStateChanged"
    /\ IF IsActive(state)
       THEN /\ ms_state' = ActiveEpoch(now, ms_state)
            /\ call' = Forwarding(Call("onStateChanged", state, "fg", <<>>, <<>>, "none"),
                                   StateChangeForward(TRUE, odometer_changed))
            /\ hist' = [hist EXCEPT !.in_motion = TRUE,
                                    !.active_seen = TRUE,
                                    !.last_active = now,
                                    !.motion_start = IF hist.in_motion THEN @ ELSE now]
            /\ UNCHANGED << odometer_changed, odometers, steps, nvs_cur >>
       ELSE /\ IF odometer_changed
               THEN /\ odometer_changed' = FALSE
                    /\ odometers' = FoldedRecord(odometers, steps, steps_per_mm, now,
                                                 ms_state)
                    /\ steps' = ClearedSteps(steps)
                    /\ nvs_cur' = Stored(odometers')
                    /\ call' = Forwarding(Call("onStateChanged", state, "fg",
                                                <<Io("write", "cur", "fg")>>, <<>>,
                                                "none"),
                                           StateChangeForward(FALSE, TRUE))
               ELSE /\ call' = Forwarding(Call("onStateChanged", state, "fg", <<>>,
                                                <<>>, "none"),
                                           StateChangeForward(FALSE, FALSE))
                    /\ UNCHANGED << odometer_changed, odometers, steps, nvs_cur >>
            /\ hist' = [hist EXCEPT
                          !.in_motion = FALSE,
                          !.pulsed = ZeroSteps,
                          !.folded = [a \in Axes |->
                                        IF odometer_changed
                                           /\ odometers'.distance[a]
                                                = AddDistance(odometers.distance[a],
                                                              steps[a], steps_per_mm[a])
                                        THEN @[a] + steps[a] ELSE @[a]],
                          !.motion_ticks = IF hist.in_motion
                                           THEN @ + (now - hist.motion_start) ELSE @,
                          !.motors_added = IF odometer_changed
                                           THEN @ + Elapsed(now, ms_state) ELSE @]
            /\ UNCHANGED ms_state
    /\ UNCHANGED << pc, now, sc, nvs_type, nvs_free, nvs_prv, steps_per_mm, odometers_prv,
                    ms_spindle, hooks, saved, other, spindle, spindle_set_state_, tasks,
                    startup >>


\* ------------------------------------- onStateChanged, statement by statement
\* the pulse hook can run between any two of these steps
\* mutant: the flag is cleared after the loop
FlagClearedFirst_No == FALSE

\* odometer_changed = false comes before the loop over the counters
FlagClearedFirst == TRUE

\* } while(idx), then --idx of the next round
NextAxis(p) ==
    IF p.idx = 0 THEN [p EXCEPT !.at = "write"]
                 ELSE [p EXCEPT !.at = "test", !.idx = @ - 1]

\* the two tests at the head of the handler
onStateChanged_enter(state) ==
    /\ pc = "run"
    /\ hooks.on_state_change = "onStateChanged"
    /\ sc.at = "idle"
    /\ IF IsActive(state)
       THEN /\ ms_state' = ActiveEpoch(now, ms_state)
            /\ UNCHANGED sc
            /\ call' = Forwarding(Call("onStateChanged_enter", state, "fg", <<>>, <<>>,
                                        "done"), StateChangeForward(TRUE, odometer_changed))
       ELSE IF odometer_changed
       THEN /\ sc' = [at |-> "clear", idx |-> N_AXIS, state |-> state]
            /\ UNCHANGED ms_state
            /\ call' = Call("onStateChanged_enter", state, "fg", <<>>, <<>>, "running")
       ELSE /\ UNCHANGED << sc, ms_state >>
            /\ call' = Forwarding(Call("onStateChanged_enter", state, "fg", <<>>, <<>>,
                                        "done"), StateChangeForward(FALSE, FALSE))
    /\ UNCHANGED << pc, now, nvs_type, nvs_free, nvs_cur, nvs_prv, steps_per_mm, steps,
                    odometer_changed, odometers, odometers_prv, ms_spindle, hooks,
                    saved, other, spindle, spindle_set_state_, tasks, startup, hist >>

\* odometer_changed = false; odometers.motors += ...
onStateChanged_clear ==
    /\ sc.at = "clear"
    /\ odometer_changed' = IF FlagClearedFirst THEN FALSE ELSE odometer_changed
    /\ odometers' = [odometers EXCEPT !.motors = @ + Elapsed(now, ms_state)]
    /\ sc' = [sc EXCEPT !.at = "test", !.idx = @ - 1]
    /\ call' = Call("onStateChanged_clear", sc.state, "fg", <<>>, <<>>, "running")
    /\ UNCHANGED << pc, now, nvs_type, nvs_free, nvs_cur, nvs_prv, steps_per_mm, steps,
                    odometers_prv, ms_state, ms_spindle, hooks, saved, other, spindle,
                    spindle_set_state_, tasks, startup, hist >>

\* if(steps[--idx])
onStateChanged_test ==
    /\ sc.at = "test"
    /\ sc' = IF steps[sc.idx] # 0 THEN [sc EXCEPT !.at = "add"] ELSE NextAxis(sc)
    /\ call' = Call("onStateChanged_test", sc.state, "fg", <<>>, <<>>, "running")
    /\ UNCHANGED << pc, now, nvs_type, nvs_free, nvs_cur, nvs_prv, steps_per_mm, steps,
                    odometer_changed, odometers, odometers_prv, ms_state, ms_spindle,
                    hooks, saved, other, spindle, spindle_set_state_, tasks, startup,
                    hist >>

\* odometers.distance[idx] += (float)steps[idx] / steps_per_mm
onStateChanged_add ==
    /\ sc.at = "add"
    /\ odometers' = [odometers EXCEPT
                       !.distance[sc.idx] = AddDistance(@, steps[sc.idx],
                                                        steps_per_mm[sc.idx])]
    /\ sc' = [sc EXCEPT !.at = "zero"]
    /\ call' = Call("onStateChanged_add", sc.state, "fg", <<>>, <<>>, "running")
    /\ UNCHANGED << pc, now, nvs_type, nvs_free, nvs_cur, nvs_prv, steps_per_mm, steps,
                    odometer_changed, odometers_prv, ms_state, ms_spindle, hooks,
                    saved, other, spindle, spindle_set_state_, tasks, startup, hist >>

\* steps[idx] = 0
onStateChanged_zero ==
    /\ sc.at = "zero"
    /\ steps' = [steps EXCEPT ![sc.idx] = 0]
    /\ sc' = NextAxis(sc)
    /\ call' = Call("onStateChanged_zero", sc.state, "fg", <<>>, <<>>, "running")
    /\ UNCHANGED << pc, now, nvs_type, nvs_free, nvs_cur, nvs_prv, steps_per_mm,
                    odometer_changed, odometers, odometers_prv, ms_state, ms_spindle,
                    hooks, saved, other, spindle, spindle_set_state_, tasks, startup,
                    hist >>

\* nvs.memcpy_to_nvs(...), then the forward
onStateChanged_write ==
    /\ sc.at = "write"
    /\ nvs_cur' = Stored(odometers)
    /\ odometer_changed' = IF FlagClearedFirst THEN odometer_changed ELSE FALSE
    /\ sc' = ScIdle
    /\ call' = Forwarding(Call("onStateChanged_write", sc.state, "fg",
                                <<Io("write", "cur", "fg")>>, <<>>, "done"),
                           StateChangeForward(FALSE, TRUE))
    /\ UNCHANGED << pc, now, nvs_type, nvs_free, nvs_prv, steps_per_mm, steps,
                    odometers, odometers_prv, ms_state, ms_spindle, hooks, saved,
                    other, spindle, spindle_set_state_, tasks, startup, hist >>

\* ----------------------------------------------------------- odometers_write
\* task_add_immediate(fn, NULL): the task pool is bounded, a full pool drops the task
TaskAddImmediate(q, fn) == IF Len(q) < MaxQueue THEN Append(q, fn) ELSE q

\* the foreground executor runs the task at the head of the queue
odometers_write ==
    /\ pc = "run"
    /\ tasks # <<>>
    /\ Head(tasks) = "odometers_write"
    /\ tasks' = Tail(tasks)
    /\ nvs_cur' = Stored(odometers)
    /\ call' = Call("odometers_write", <<>>, "fg", <<Io("write", "cur", "fg")>>, <<>>,
                    "none")
    /\ UNCHANGED << pc, now, sc, nvs_type, nvs_free, nvs_prv, steps_per_mm, steps,
                    odometer_changed, odometers, odometers_prv, ms_state, ms_spindle,
                    hooks, saved, other, spindle, spindle_set_state_, startup, hist >>

\* ---------------------------------------------------------- onSpindleSetState
\* else if(ms)
EpochExists(ms) == ms # 0

\* mutant: the wrapper writes the record itself
SpindleOffPersist_Direct(q, rec, slot, ctx) ==
    [tasks |-> q, nvs_cur |-> Stored(rec), io |-> <<Io("write", "cur", ctx)>>]

\* mutant: the wrapper does not schedule the write
SpindleOffPersist_NoTask(q, rec, slot, ctx) ==
    [tasks |-> q, nvs_cur |-> slot, io |-> <<>>]

\* how the spindle-off branch gets the record to storage: [tasks, nvs_cur, io]
SpindleOffPersist(q, rec, slot, ctx) ==
    [tasks |-> TaskAddImmediate(q, "odometers_write"), nvs_cur |-> slot, io |-> <<>>]

\* spindle_set_state_(spindle, state, rpm), the first statement of the wrapper
SetStateForward == Forward(spindle_set_state_, "first")

onSpindleSetState(on) ==
    /\ pc = "run"
    /\ spindle.set_state = "onSpindleSetState"
    /\ IF on
       THEN /\ ms_spindle' = now
            /\ call' = Forwarding(Call("onSpindleSetState", on, "isr", <<>>, <<>>,
                                        "none"), SetStateForward)
            /\ UNCHANGED << odometers, tasks, nvs_cur >>
       ELSE IF EpochExists(ms_spindle)
       THEN LET rec == [odometers EXCEPT !.spindle = @ + Elapsed(now, ms_spindle)]
                p == SpindleOffPersist(tasks, rec, nvs_cur, "isr")
            IN  /\ odometers' = rec
                /\ ms_spindle' = 0
                /\ tasks' = p.tasks
                /\ nvs_cur' = p.nvs_cur
                /\ call' = Forwarding(Call("onSpindleSetState", on, "isr", p.io, <<>>,
                                            "added"), SetStateForward)
       ELSE /\ call' = Forwarding(Call("onSpindleSetState", on, "isr", <<>>, <<>>,
                                        "none"), SetStateForward)
            /\ UNCHANGED << odometers, ms_spindle, tasks, nvs_cur >>
    /\ hist' = [hist EXCEPT
                  !.spindle_is_on = on,
                  !.spindle_on_at = IF on THEN now ELSE 0,
                  !.energized_at = IF on /\ ~hist.spindle_is_on THEN now
                                   ELSE IF on THEN @ ELSE 0,
                  !.energized = IF ~on /\ hist.spindle_is_on
                                THEN @ + (now - hist.energized_at) ELSE @,
                  !.spindle_added = @ + (odometers'.spindle - odometers.spindle),
                  !.on_at_boot_tick = @ \/ (on /\ now = 0)]
    /\ UNCHANGED << pc, now, sc, nvs_type, nvs_free, nvs_prv, steps_per_mm, steps,
                    odometer_changed, odometers_prv, ms_state, hooks, saved, other, spindle,
                    spindle_set_state_, startup >>

\* ---------------------------------------------------------- onSpindleSelected
SpindleIds == {0, 1}

DriverSetState(id) == IF id = 0 THEN "spindle0_set_state" ELSE "spindle1_set_state"

\* mutant: spindle 0 is wrapped at every selection
ShouldWrap_EveryTime(sp) == sp.id = 0

\* spindle->id == 0 && spindle->set_state != onSpindleSetState
ShouldWrap(sp) == sp.id = 0 /\ sp.set_state # "onSpindleSetState"

\* the host selects spindle id (fresh: it copied the driver's entry points into the
\* active spindle; otherwise it notifies again for the spindle as it stands)
onSpindleSelected(id, fresh) ==
    /\ pc = "run"
    /\ hooks.on_spindle_selected = "onSpindleSelected"
    /\ fresh \/ id = spindle.id
    /\ LET sp == IF fresh THEN [id |-> id, set_state |-> DriverSetState(id)] ELSE spindle
       IN  IF ShouldWrap(sp)
           THEN /\ spindle_set_state_' = sp.set_state
                /\ spindle' = [sp EXCEPT !.set_state = "onSpindleSetState"]
           ELSE /\ spindle' = sp
                /\ UNCHANGED spindle_set_state_
    /\ call' = Forwarding(Call("onSpindleSelected", <<id, fresh>>, "fg", <<>>, <<>>,
                                "none"),
                           ForwardIfSet(saved.on_spindle_selected, "last"))
    /\ UNCHANGED << pc, now, sc, nvs_type, nvs_free, nvs_cur, nvs_prv, steps_per_mm, steps,
                    odometer_changed, odometers, odometers_prv, ms_state, ms_spindle,
                    hooks, saved, other, tasks, startup, hist >>

\* ----------------------------------------------------------- odometers_report
\* ftoa(distance / 1000.0f, 1): metres with one decimal, given in tenths
Ftoa1(d) == d \div (QuantaPerMm * 100)

Hours(t) == t \div 3600000

Minutes(t) == (t \div 60000) % 60

odometers_report(rec) ==
    << <<"SPINDLEHRS", Hours(rec.spindle), Minutes(rec.spindle)>>,
       <<"MOTORHRS", Hours(rec.motors), Minutes(rec.motors)>> >>
      \o [i \in 1 .. N_AXIS |-> <<"ODOMETER", i - 1, Ftoa1(rec.distance[i - 1])>>]

\* ----------------------------------------------------------- odometer_command
UpperOf == ("p" :> "P") @@ ("r" :> "R") @@ ("e" :> "E") @@ ("v" :> "V")
             @@ ("s" :> "S") @@ ("t" :> "T") @@ ("f" :> "F") @@ ("o" :> "O")

\* mutant: the argument is compared as typed
strcaps_AsTyped(str) == str

\* strcaps(args)
strcaps(str) ==
    [i \in 1 .. Len(str) |-> IF str[i] \in DOMAIN UpperOf THEN UpperOf[str[i]] ELSE str[i]]

\* mutant: the previous record is reported whether or not it could be loaded
PrevOutput_Always(slot) == odometers_report(slot.data)

\* what PREV prints: the loaded record, or the warning when the load failed
PrevOutput(slot) ==
    IF LoadOk(slot)
    THEN odometers_report(slot.data)
    ELSE << <<"Warning", "Previous odometer values not available">> >>

odometer_command(args) ==
    /\ pc = "run"
    /\ hooks.commands
    /\ IF args = NoArgs
       THEN /\ call' = Call("odometer_command", args, "fg", <<>>,
                            odometers_report(odometers), "Status_OK")
            /\ UNCHANGED << odometers, odometers_prv, nvs_cur, nvs_prv >>
       ELSE IF strcaps(args) = <<"P", "R", "E", "V">>
       THEN /\ odometers_prv' = nvs_prv.data
            /\ UNCHANGED odometers
            /\ call' = Call("odometer_command", args, "fg", <<Io("read", "prv", "fg")>>,
                            PrevOutput(nvs_prv), "Status_OK")
            /\ UNCHANGED << nvs_cur, nvs_prv >>
       ELSE IF strcaps(args) = <<"R", "S", "T">>
       THEN LET r == DataReset(TRUE, "fg")
            IN  /\ odometers' = r.odometers
                /\ odometers_prv' = r.odometers_prv
                /\ nvs_cur' = r.nvs_cur
                /\ nvs_prv' = r.nvs_prv
                /\ call' = Call("odometer_command", args, "fg", r.io, <<>>, "Status_OK")
       ELSE /\ call' = Call("odometer_command", args, "fg", <<>>, <<>>,
                            "Status_Unhandled")
            /\ UNCHANGED << odometers, odometers_prv, nvs_cur, nvs_prv >>
    /\ hist' = IF call'.io # <<>> /\ call'.io[1].kind = "write"
               THEN [hist EXCEPT !.backed_up = TRUE, !.backup = odometers,
                                 !.counted = ZeroSteps, !.folded = ZeroSteps,
                                 !.carried = steps]
               ELSE hist
    /\ UNCHANGED << pc, now, sc, nvs_type, nvs_free, steps_per_mm, steps, odometer_changed,
                    ms_state, ms_spindle, hooks, saved, other, spindle, spindle_set_state_,
                    tasks, startup >>

\* ---------------------------------------------------------- onSettingsChanged
\* hal.stepper.pulse_start != stepperPulseStart
NeedsReclaim(entry) == entry # "stepperPulseStart"

\* the host reloads the settings; reset: the saved handler, called first, has put
\* the driver's emitter back as the pulse entry point
onSettingsChanged(reset) ==
    /\ pc = "run"
    /\ hooks.settings_changed = "onSettingsChanged"
    /\ LET entry == IF reset THEN "driver" ELSE hooks.pulse_start
       IN  IF NeedsReclaim(entry)
           THEN /\ saved' = [saved EXCEPT !.stepper_pulse_start = entry]
                /\ hooks' = [hooks EXCEPT !.pulse_start = "stepperPulseStart"]
           ELSE /\ hooks' = [hooks EXCEPT !.pulse_start = entry]
                /\ UNCHANGED saved
    /\ call' = Forwarding(Call("onSettingsChanged", reset, "fg", <<>>, <<>>, "none"),
                           Forward(saved.settings_changed, "first"))
    /\ UNCHANGED << pc, now, sc, nvs_type, nvs_free, nvs_cur, nvs_prv, steps_per_mm, steps,
                    odometer_changed, odometers, odometers_prv, ms_state, ms_spindle,
                    other, spindle, spindle_set_state_, tasks, startup, hist >>

\* what other subsystems do to hal.stepper.pulse_start between notifications:
\* replace it by the driver's emitter, or wrap it with a handler of their own that
\* forwards to the entry point it found
PulseEntryChanges == {"replace", "wrap"}

OtherSubsystem(change) ==
    /\ pc = "run"
    /\ hooks.settings_changed = "onSettingsChanged"
    /\ IF change = "replace"
       THEN /\ hooks.pulse_start # "driver"
            /\ hooks' = [hooks EXCEPT !.pulse_start = "driver"]
            /\ UNCHANGED other
       ELSE /\ hooks.pulse_start # "other"
            /\ other' = hooks.pulse_start
            /\ hooks' = [hooks EXCEPT !.pulse_start = "other"]
    /\ call' = Call("other", change, "fg", <<>>, <<>>, "none")
    /\ UNCHANGED << pc, now, sc, nvs_type, nvs_free, nvs_cur, nvs_prv, steps_per_mm, steps,
                    odometer_changed, odometers, odometers_prv, ms_state, ms_spindle,
                    saved, spindle, spindle_set_state_, tasks, startup, hist >>

\* ------------------------------------------------------------ onReportOptions
onReportOptions(newopt) ==
    /\ pc = "run"
    /\ hooks.on_report_options = "onReportOptions"
    /\ call' = Forwarding(Call("onReportOptions", newopt, "fg", <<>>,
                                IF newopt THEN << <<",ODO">> >>
                                          ELSE << <<"PLUGIN", "Odometers", "0.08">> >>,
                                "none"),
                           Forward(saved.on_report_options, "first"))
    /\ UNCHANGED << pc, now, sc, nvs_type, nvs_free, nvs_cur, nvs_prv, steps_per_mm, steps,
                    odometer_changed, odometers, odometers_prv, ms_state, ms_spindle,
                    hooks, saved, other, spindle, spindle_set_state_, tasks, startup,
                    hist >>

\* --------------------------------------------------------------------- Next
\* one more host event within the horizon of Spec
Counted == calls < MaxCalls /\ calls' = calls + 1

\* the handlers that read or write the record, the counters and storage, from any
\* state, within MaxCalls host events (the plugin's own deferred write is not one)
Next ==
    \/ odometer_init /\ UNCHANGED calls
    \/ Tick /\ Counted
    \/ \E bits \in StepOuts : stepperPulseStart(bits) /\ Counted
    \/ \E state \in States : onStateChanged(state) /\ Counted
    \/ \E on \in BOOLEAN : onSpindleSetState(on) /\ Counted
    \/ \E id \in SpindleIds, fresh \in BOOLEAN : onSpindleSelected(id, fresh) /\ Counted
    \/ odometers_write /\ UNCHANGED calls
    \/ \E args \in Args : odometer_command(args) /\ Counted

Spec == Init /\ [][Next]_vars

\* the motion side alone, to any depth: pulses, state changes and the tick
NextMotion ==
    \/ odometer_init /\ UNCHANGED calls
    \/ Tick /\ UNCHANGED calls
    \/ \E bits \in StepOuts : stepperPulseStart(bits) /\ UNCHANGED calls
    \/ \E state \in States : onStateChanged(state) /\ UNCHANGED calls

SpecMotion == Init /\ [][NextMotion]_vars

\* the spindle side alone, to any depth: selection, set-state, the deferred write
NextSpindle ==
    \/ odometer_init /\ UNCHANGED calls
    \/ Tick /\ UNCHANGED calls
    \/ \E on \in BOOLEAN : onSpindleSetState(on) /\ UNCHANGED calls
    \/ \E id \in SpindleIds, fresh \in BOOLEAN :
          onSpindleSelected(id, fresh) /\ UNCHANGED calls
    \/ odometers_write /\ UNCHANGED calls

SpecSpindle == Init /\ [][NextSpindle]_vars

\* the installed wrappers and what other subsystems do to the pulse entry point,
\* to any depth at one tick, with one pulse pattern and one state of each kind
NextHooks ==
    \/ odometer_init /\ UNCHANGED calls
    \/ \E bits \in {{0, 2}} : stepperPulseStart(bits) /\ UNCHANGED calls
    \/ \E state \in {"STATE_IDLE", "STATE_CYCLE"} :
          onStateChanged(state) /\ UNCHANGED calls
    \/ \E on \in BOOLEAN : onSpindleSetState(on) /\ UNCHANGED calls
    \/ \E id \in SpindleIds, fresh \in BOOLEAN :
          onSpindleSelected(id, fresh) /\ UNCHANGED calls
    \/ \E reset \in BOOLEAN : onSettingsChanged(reset) /\ UNCHANGED calls
    \/ \E newopt \in BOOLEAN : onReportOptions(newopt) /\ UNCHANGED calls
    \/ \E change \in PulseEntryChanges : OtherSubsystem(change) /\ UNCHANGED calls

SpecHooks == Init /\ [][NextHooks]_vars

\* the state-change handler run statement by statement, with the pulse hook
\* running between any two statements, at one tick
NextPreempt ==
    \/ odometer_init /\ UNCHANGED calls
    \/ \E bits \in StepOuts : stepperPulseStart(bits) /\ UNCHANGED calls
    \/ \E state \in States : onStateChanged_enter(state) /\ UNCHANGED calls
    \/ onStateChanged_clear /\ UNCHANGED calls
    \/ onStateChanged_test /\ UNCHANGED calls
    \/ onStateChanged_add /\ UNCHANGED calls
    \/ onStateChanged_zero /\ UNCHANGED calls
    \/ onStateChanged_write /\ UNCHANGED calls

SpecPreempt == Init /\ [][NextPreempt]_vars

\* ------------------------------------------------------------- properties
\* the steps of each handler, told by the call they leave behind
InactiveStates == {"STATE_IDLE", "STATE_HOLD"}

InactiveStep == call'.op = "onStateChanged" /\ call'.arg \in InactiveStates

RstStep == call'.op = "odometer_command" /\ call'.arg = <<"r", "s", "t">>

PrevStep == call'.op = "odometer_command" /\ call'.arg = <<"P", "R", "E", "V">>

InitStep == call'.op = "odometer_init"

SpindleOffStep == call'.op = "onSpindleSetState" /\ call'.arg = FALSE

WritesTo(io, slot) == {i \in 1 .. Len(io) : io[i].kind = "write" /\ io[i].slot = slot}

\* the slot holds rec and passes its integrity check
Holds(slot, rec) == slot.data = rec /\ slot.crc = Crc(rec)

Abs(x) == IF x < 0 THEN -x ELSE x

\* x is a float: it has at most FLT_MANT_DIG significant bits
Representable(x) == x % Ulp(x) = 0

\* the sum of the distance and the pulses since the last fold, in exact arithmetic
ExactSum(a) == odometers.distance[a] + hist.pulsed[a] * (QuantaPerMm \div Scale[a])

\* what an inactive notification does besides the distance
C1_Flushed ==
    /\ steps' = ZeroSteps
    /\ odometer_changed' = FALSE
    /\ Holds(nvs_cur', odometers')
    /\ call'.io = <<Io("write", "cur", "fg")>>

\* C1 as claimed: N pulses for an axis, then an inactive notification, add exactly
\* N / S to the axis distance, zero the counters and the flag and write the record.
C1_ExactDistance ==
    [][InactiveStep /\ odometer_changed
         => /\ \A a \in Axes : odometers'.distance[a] = ExactSum(a)
            /\ C1_Flushed]_vars

\* C1 amended: the distance becomes the float nearest to distance + N / S (so it
\* grows by exactly N / S when that sum is a float), and the rest as claimed.
C1_RoundedDistance ==
    [][InactiveStep /\ odometer_changed
         => /\ \A a \in Axes :
                 /\ Representable(odometers'.distance[a])
                 /\ 2 * Abs(odometers'.distance[a] - ExactSum(a)) <= Ulp(ExactSum(a))
                 /\ Representable(ExactSum(a)) => odometers'.distance[a] = ExactSum(a)
            /\ C1_Flushed]_vars

\* one pulse on axis 1 (2 steps/mm) was folded into the worn record and written
C1_Witness ==
    /\ call.op = "onStateChanged"
    /\ call.arg \in InactiveStates
    /\ call.io # <<>>
    /\ odometers.distance[1] = WornRecord.distance[1] + 1
    /\ steps = ZeroSteps

\* C2: the time added to motorTimeMs never exceeds the ticks between an active
\* notification and the next inactive one (no interval is counted twice, and the
\* ticks since boot are not counted).
C2_NoDoubleCount == hist.motors_added <= hist.motion_ticks

\* C3: a set-state off that follows a set-state on at T0 adds now - T0 to
\* spindleTimeMs, clears the epoch and enqueues one write (the pool permitting);
\* an off with no epoch changes nothing.
C3_SpindleOff ==
    [][SpindleOffStep
         => IF hist.spindle_is_on
            THEN /\ odometers'.spindle = odometers.spindle + (now - hist.spindle_on_at)
                 /\ ms_spindle' = 0
                 /\ \/ tasks' = Append(tasks, "odometers_write")
                    \/ Len(tasks) = MaxQueue /\ tasks' = tasks
            ELSE odometers' = odometers /\ tasks' = tasks]_vars

\* C4: RST with the current record R leaves R in the previous slot and the zero
\* record in memory and in the current slot, returns OK, and a later PREV query
\* reports R without a warning.
C4_ResetBackup ==
    [][/\ RstStep => /\ Holds(nvs_prv', odometers)
                     /\ odometers' = ZeroRecord
                     /\ Holds(nvs_cur', ZeroRecord)
                     /\ call'.ret = "Status_OK"
       /\ PrevStep /\ hist.backed_up
             => /\ call'.out = odometers_report(hist.backup)
                /\ call'.ret = "Status_OK"]_vars

\* a PREV query reported the worn record that an RST had backed up
C4_Witness ==
    /\ call.op = "odometer_command"
    /\ call.arg = <<"P", "R", "E", "V">>
    /\ hist.backed_up
    /\ hist.backup = WornRecord
    /\ call.out = odometers_report(WornRecord)
    /\ odometers = ZeroRecord

\* C5: only RST writes the previous slot, once per call; every other handler
\* leaves it as it was.
C5_PreviousOnlyByReset ==
    [][IF RstStep
       THEN Cardinality(WritesTo(call'.io, "prv")) = 1
       ELSE WritesTo(call'.io, "prv") = {} /\ nvs_prv' = nvs_prv]_vars

\* the recovery reset at initialization ran while the previous slot held a record
C5_Witness ==
    /\ call.op = "odometer_init"
    /\ call.ret = "reset"
    /\ Holds(nvs_prv, WornRecord)

\* C6: the pulse hook and the spindle wrapper never touch storage (the wrapper
\* only enqueues); every storage access is made in the foreground.
C6_NoIsrStorage ==
    [][/\ \A i \in 1 .. Len(call'.io) : call'.io[i].ctx = "fg"
       /\ call'.op \in {"stepperPulseStart", "onSpindleSetState"}
             => call'.io = <<>> /\ nvs_cur' = nvs_cur /\ nvs_prv' = nvs_prv
       /\ nvs_cur' # nvs_cur
             => call'.op \in {"onStateChanged", "odometer_command", "odometer_init",
                              "odometers_write"}]_vars

\* a spindle off closed its epoch and left the write to the queue
C6_Witness ==
    /\ call.op = "onSpindleSetState"
    /\ call.ret = "added"
    /\ call.io = <<>>
    /\ tasks # <<>>

\* the plugin was initialized with its hooks installed
Enabled == pc = "run" /\ hooks.commands

\* C7: whenever the task queue is empty the current slot holds the in-memory
\* record, spindle time included, and a write task that runs when the slot is
\* already up to date leaves the same stored bytes.
C7_DrainedIsStored ==
    [][/\ Enabled' /\ tasks' = <<>> => Holds(nvs_cur', odometers')
       /\ call'.op = "odometers_write" /\ Holds(nvs_cur, odometers)
             => nvs_cur' = nvs_cur]_vars

\* two spindle offs were queued; the first write ran and stored the spindle time,
\* the second is still to run
C7_Witness ==
    /\ call.op = "odometers_write"
    /\ Len(tasks) = 1
    /\ odometers.spindle > 0
    /\ Holds(nvs_cur, odometers)
    /\ nvs_cur.data.spindle = 1

\* C8: motorTimeMs and spindleTimeMs decrease only in a reset (RST, or the
\* recovery reset of initialization).
C8_Monotonic ==
    [][\/ RstStep
       \/ InitStep /\ call'.ret = "reset"
       \/ /\ odometers'.motors >= odometers.motors
          /\ odometers'.spindle >= odometers.spindle]_vars

\* a notification added motor time to a record that already had some
C8_Witness ==
    /\ call.op = "onStateChanged"
    /\ call.io # <<>>
    /\ odometers.motors > WornRecord.motors

\* the backend is neither EEPROM nor FRAM, or has less than two slots free
Unsuitable ==
    \/ nvs_type \notin {"NVS_EEPROM", "NVS_FRAM"}
    \/ nvs_free < 2 * (RecordSize + NVS_CRC_BYTES)

NothingInstalled ==
    /\ hooks.pulse_start = "driver"
    /\ hooks.on_state_change \in {"NULL", "host"}
    /\ hooks.settings_changed = "host"
    /\ hooks.on_spindle_selected \in {"NULL", "host"}
    /\ hooks.on_report_options = "host"
    /\ ~hooks.commands
    /\ ~hooks.odometers_cap

AllInstalled ==
    /\ hooks.pulse_start = "stepperPulseStart"
    /\ hooks.on_state_change = "onStateChanged"
    /\ hooks.settings_changed = "onSettingsChanged"
    /\ hooks.on_spindle_selected = "onSpindleSelected"
    /\ hooks.on_report_options = "onReportOptions"
    /\ hooks.commands
    /\ hooks.odometers_cap

\* C9: on an unsuitable backend odometer_init installs nothing, touches no storage
\* and schedules one startup warning; otherwise it installs every hook.
C9_AllOrNothing ==
    [][/\ InitStep /\ Unsuitable
             => /\ call'.io = <<>>
                /\ nvs_cur' = nvs_cur /\ nvs_prv' = nvs_prv
                /\ odometers' = odometers /\ odometers_prv' = odometers_prv
                /\ Len(startup') = Len(startup) + 1
       /\ InitStep /\ ~Unsuitable => startup' = startup
       /\ pc' = "run" => IF Unsuitable THEN NothingInstalled' ELSE AllInstalled']_vars

\* odometer_init ran on a flash backend and left the host as it was
C9_Witness ==
    /\ call.op = "odometer_init"
    /\ nvs_type = "NVS_Flash"
    /\ NothingInstalled
    /\ Len(startup) = 1

\* C10: a successful initialization takes the record of the current slot when it
\* loads (writing nothing); when it does not load, the record is zero, the current
\* slot is written with zero and the previous slot is not written.
C10_LoadOrZero ==
    [][InitStep /\ ~Unsuitable
         => IF nvs_cur.crc = Crc(nvs_cur.data)
            THEN /\ odometers' = nvs_cur.data
                 /\ WritesTo(call'.io, "cur") = {} /\ WritesTo(call'.io, "prv") = {}
                 /\ nvs_cur' = nvs_cur /\ nvs_prv' = nvs_prv
            ELSE /\ odometers' = ZeroRecord
                 /\ Holds(nvs_cur', ZeroRecord)
                 /\ WritesTo(call'.io, "cur") # {}
                 /\ WritesTo(call'.io, "prv") = {}
                 /\ nvs_prv' = nvs_prv]_vars

\* the current slot failed its check and was rewritten with the zero record
C10_Witness ==
    /\ call.op = "odometer_init"
    /\ call.ret = "reset"
    /\ odometers = ZeroRecord
    /\ Holds(nvs_cur, ZeroRecord)

\* the lines odometers_report prints
ReportTags == {"SPINDLEHRS", "MOTORHRS", "ODOMETER"}

\* C11: PREV, when the previous slot cannot be loaded, prints the warning and no
\* spindle, motor or axis line, returns Status_OK, and changes neither the current
\* record nor any storage slot.
C11_PrevUnavailable ==
    [][PrevStep /\ ~LoadOk(nvs_prv)
         => /\ call'.out = << <<"Warning", "Previous odometer values not available">> >>
            /\ \A i \in 1 .. Len(call'.out) : call'.out[i][1] \notin ReportTags
            /\ call'.ret = "Status_OK"
            /\ odometers' = odometers
            /\ nvs_cur' = nvs_cur
            /\ nvs_prv' = nvs_prv
            /\ WritesTo(call'.io, "cur") = {}
            /\ WritesTo(call'.io, "prv") = {}]_vars

\* PREV has just run on a previous slot that fails its check, on a used record
C11_Witness ==
    /\ call.op = "odometer_command"
    /\ call.arg = <<"P", "R", "E", "V">>
    /\ ~LoadOk(nvs_prv)
    /\ call.out[1][1] = "Warning"
    /\ odometers # ZeroRecord

\* the arguments that are absent, PREV or RST once upper-cased
C12_Recognized == {NoArgs, <<"P", "R", "E", "V">>, <<"r", "s", "t">>}

\* C12: the command handler returns Status_OK for no argument, PREV and RST (after
\* upper-casing) and Status_Unhandled for every other argument; for the unrecognized
\* and the no-argument form the current record, the previous record, the step
\* counters, the dirty flag and both slots are unchanged.
C12_Status ==
    [][call'.op = "odometer_command"
         => /\ call'.ret = IF call'.arg \in C12_Recognized THEN "Status_OK"
                                                          ELSE "Status_Unhandled"
            /\ call'.arg \notin {<<"P", "R", "E", "V">>, <<"r", "s", "t">>}
                 => /\ odometers' = odometers
                    /\ odometers_prv' = odometers_prv
                    /\ steps' = steps
                    /\ odometer_changed' = odometer_changed
                    /\ nvs_cur' = nvs_cur
                    /\ nvs_prv' = nvs_prv
                    /\ call'.io = <<>>]_vars

\* an unrecognized argument has just been refused while pulses were pending
C12_Witness ==
    /\ call.op = "odometer_command"
    /\ call.arg = <<"F", "O", "O">>
    /\ call.ret = "Status_Unhandled"
    /\ odometer_changed
    /\ steps # ZeroSteps
    /\ odometers # ZeroRecord

\* the calls a wrapper made to handler h
CallsTo(fwd, h) == {i \in 1 .. Len(fwd) : fwd[i].to = h}

\* the wrapper called h, the handler installed before it, once and no other handler
\* (a NULL subscriber is not called)
ForwardedOnceTo(fwd, h) ==
    IF h = "NULL" THEN fwd = <<>>
    ELSE Len(fwd) = 1 /\ Cardinality(CallsTo(fwd, h)) = 1

C14_EnergizedTime ==
    ~hist.spindle_is_on /\ ~hist.on_at_boot_tick
        => hist.spindle_added = hist.energized

ActiveStep == call'.op = "onStateChanged" /\ call'.arg \notin InactiveStates

\* C15: the motion epoch is set to the current tick on every active notification,
\* not only the first of a motion, and is left untouched by inactive notifications;
\* so an inactive notification with the dirty flag set adds to motorTimeMs exactly
\* the ticks since the most recent active notification, and none before it.
C15_EpochRearmed ==
    [][/\ ActiveStep => ms_state' = now /\ odometers' = odometers
       /\ InactiveStep => ms_state' = ms_state
       /\ InactiveStep /\ odometer_changed /\ hist.active_seen
            => odometers'.motors = odometers.motors + (now - hist.last_active)]_vars

\* an inactive notification found pulses pending after two active notifications
\* at different ticks
C15_Witness ==
    /\ call.op = "onStateChanged"
    /\ call.arg \in InactiveStates
    /\ call.io # <<>>
    /\ hist.active_seen
    /\ hist.motion_start < hist.last_active
    /\ hist.last_active < now

\* C16 as claimed: with no pulse arriving while an inactive notification is handled,
\* after any interleaving of pulses, notifications, resets and queries, for every
\* axis the pulses counted since the last reset or start equal the pulses folded
\* into distance since then plus the pending steps[axis].
C16_ConservedSinceReset ==
    \A a \in Axes : hist.counted[a] = hist.folded[a] + steps[a]

\* C16 amended: the pulses that were pending at the last reset are counted in;
\* a reset clears the record and leaves steps[] as it is, so they are folded into
\* the new record.
C16_ConservedWithCarry ==
    \A a \in Axes : hist.counted[a] + hist.carried[a] = hist.folded[a] + steps[a]

\* a pulse was pending at a reset, another came after it, and both were folded
C16_Witness ==
    /\ hist.carried[0] = 1
    /\ hist.counted[0] = 1
    /\ hist.folded[0] = 2
    /\ steps[0] = 0

\* C17: the restricted context writes only the step counters and the dirty flag;
\* the in-memory current record is modified only by foreground code, so no reset or
\* record write of the foreground interleaves with a modification of the record
\* made in the restricted context.
C17_RecordForegroundOnly ==
    [][odometers' # odometers => call'.ctx = "fg"]_vars

\* C18: after every settings-changed notification handled by onSettingsChanged,
\* whatever other subsystems did to the pulse entry point (replaced it, or wrapped
\* the plugin's hook with a handler of their own that forwards to it), the installed
\* entry point is the plugin's hook, the saved emitter is never the hook itself, and
\* a call of the installed entry point reaches the driver's emitter and returns.
C18_Reclaimed ==
    [][call'.op = "onSettingsChanged"
         => /\ hooks'.pulse_start = "stepperPulseStart"
            /\ saved'.stepper_pulse_start # "stepperPulseStart"
            /\ PulseReturns']_vars

\* C19: after any sequence of spindle-selection notifications, a selected spindle
\* with id 0 has the wrapper as its set-state entry and the saved underlying function
\* is never the wrapper itself (selecting a wrapped spindle again does not wrap it
\* twice); a spindle with another id is never wrapped; and the wrapper calls the
\* underlying set-state function first.
C19_WrappedOnce ==
    [][/\ call'.op = "onSpindleSelected"
            => /\ spindle'.id = 0
                    => /\ spindle'.set_state = "onSpindleSetState"
                       /\ spindle_set_state_' \notin {"NULL", "onSpindleSetState"}
               /\ spindle'.id # 0 => spindle'.set_state # "onSpindleSetState"
       /\ call'.op # "onSpindleSelected"
            => spindle' = spindle /\ spindle_set_state_' = spindle_set_state_
       /\ call'.op = "onSpindleSetState"
            => call'.fwd = <<[to |-> spindle_set_state_, at |-> "first"]>>]_vars

\* spindle 0 has just been selected again as it stood, after the wrapper had
\* already taken an on call
C19_Witness ==
    /\ call.op = "onSpindleSelected"
    /\ call.arg = <<0, FALSE>>
    /\ ms_spindle # 0
    /\ spindle.set_state = "onSpindleSetState"
    /\ spindle_set_state_ = DriverSetState(0)

\* C20: at every point where no handler is in the middle of executing, if any
\* steps[axis] is not 0 then the dirty flag is set; also when the pulse hook
\* preempts the state-change handler between the clearing of the flag and the
\* zeroing of the counters.
C20_PendingIsDirty ==
    sc.at = "idle" /\ steps # ZeroSteps => odometer_changed

\* the handler has finished after a pulse preempted it past the clearing of the
\* flag: a counter it had already passed is not 0
C20_Witness ==
    /\ call.op = "onStateChanged_write"
    /\ sc.at = "idle"
    /\ steps # ZeroSteps
    /\ odometer_changed

====
